---- MODULE Spec2Model ----
(***************************************************************************)
(* Mondrian-style interactive grid (Assignment2/sketch.js).                *)
(*                                                                         *)
(* The sketch is a p5.js program: setup() runs once, then the host calls   *)
(* draw() once per frame and mousePressed()/mouseReleased() on pointer     *)
(* events, never concurrently.  The state is the sketch's global           *)
(* variables; `now` is the value millis() returns and `frame` is what the  *)
(* latest draw() put on the canvas.  `probe` holds one call of a utility   *)
(* function with its arguments and result; it is idle while the sketch     *)
(* runs.                                                                   *)
(*                                                                         *)
(* Numbers.  Cut positions are integers (pixel values); progress, eased    *)
(* progress, anchor coordinates and interpolated positions are exact       *)
(* rationals <<n, d>> in lowest terms with d > 0.  NaN (what p5's lerp     *)
(* returns for an undefined operand) is the pair <<0, 0>>.                 *)
(*                                                                         *)
(* Randomness.  random() is an input: a press draws from a stream rs, the  *)
(* k-th draw (k = 0, 1, ...) of a stream being the integer rs.a + k*rs.s   *)
(* reduced into the requested range.  The calls of one press draw from the *)
(* same stream one after the other, as they do from p5's generator.        *)
(***************************************************************************)
EXTENDS Integers, Sequences, FiniteSets, TLC

(* ----- Canvas & style (sketch.js 9-11, 29, 103, 180) ----- *)
W == 820
H == 600
LINE_W == 8
MARGIN == 10
TRANSITION_MS == 1100
MinGap == 60
triesLimit == 5000

(* ----- Bounds of the model ----- *)
MaxSeed == 3          \* random streams 0..MaxSeed
MaxFrames == 8        \* the clock runs to MaxFrames * FrameMs

FrameMs == TRANSITION_MS \div 4
MaxNow == MaxFrames * FrameMs
TickDeltas == {FrameMs, 2 * FrameMs}
Streams == {[a |-> 250 * k, s |-> 59 * k] : k \in 0..MaxSeed}

VARIABLES vLines, hLines, cells, originalV, originalH, originalColorsMap,
          originalColorTargets, randomColorsMap, mode, tStart, vStart, hStart,
          now, frame, probe

vars == <<vLines, hLines, cells, originalV, originalH, originalColorsMap,
          originalColorTargets, randomColorsMap, mode, tStart, vStart, hStart,
          now, frame, probe>>

(* ======================= Exact rational arithmetic ======================= *)

Abs(x) == IF x < 0 THEN -x ELSE x

\* greatest common divisor, by Euclid's algorithm
gcd[p \in Nat \X Nat] == IF p[2] = 0 THEN p[1] ELSE gcd[<<p[2], p[1] % p[2]>>]
GCD(a, b) == gcd[<<a, b>>]

NaN == <<0, 0>>
IsNaN(q) == q[2] = 0

\* the pair nd = <<n, d>> in lowest terms
Lowest(nd) ==
  IF nd[2] = 0 THEN NaN
  ELSE LET g == GCD(Abs(nd[1]), Abs(nd[2]))
           sg == IF nd[2] < 0 THEN -1 ELSE 1
       IN <<sg * (nd[1] \div g), Abs(nd[2]) \div g>>

\* n / d; the quantifier makes the checker evaluate n and d once
Rat(n, d) == CHOOSE q \in {Lowest(nd) : nd \in {<<n, d>>}} : TRUE

R(n) == <<n, 1>>
RatAdd(p, q) == IF IsNaN(p) \/ IsNaN(q) THEN NaN ELSE Rat(p[1] * q[2] + q[1] * p[2], p[2] * q[2])
RatSub(p, q) == IF IsNaN(p) \/ IsNaN(q) THEN NaN ELSE Rat(p[1] * q[2] - q[1] * p[2], p[2] * q[2])
RatMul(p, q) == IF IsNaN(p) \/ IsNaN(q) THEN NaN ELSE Rat(p[1] * q[1], p[2] * q[2])
RatDiv(p, q) == IF IsNaN(p) \/ IsNaN(q) THEN NaN ELSE Rat(p[1] * q[2], p[2] * q[1])
\* comparisons with NaN are false, as in JavaScript
RatLt(p, q) == ~IsNaN(p) /\ ~IsNaN(q) /\ p[1] * q[2] < q[1] * p[2]
RatGe(p, q) == ~IsNaN(p) /\ ~IsNaN(q) /\ p[1] * q[2] >= q[1] * p[2]

\* p5 constrain(n, low, high)
constrain(q, lo, hi) == IF RatLt(q, lo) THEN lo ELSE IF RatLt(hi, q) THEN hi ELSE q

\* p5 lerp(start, stop, amt) = amt * (stop - start) + start
lerp(a, b, t) == RatAdd(RatMul(t, RatSub(b, a)), a)

(* =========================== Utilities ======================= *)

\* arr.slice().sort((a,b)=>a-b): a stable ascending sort of a copy
Rank(s, k) == 1 + Cardinality({m \in 1..Len(s) : s[m] < s[k] \/ (s[m] = s[k] /\ m < k)})
SortAsc(s) == [i \in 1..Len(s) |-> s[CHOOSE k \in 1..Len(s) : Rank(s, k) = i]]

\* variant: the cuts are taken in the order given
boundaries_unsorted(arr, extent) == <<0>> \o arr \o <<extent>>

\* what the caller's array holds after arr.sort(...) without the slice()
afterSortedCopy_inPlace(arr) == SortAsc(arr)

\* what the caller's array holds after arr.slice().sort(...): the sort works
\* on the copy (lines 138-139, 159-160, 205-206)
afterSortedCopy(arr) == arr

\* [0, ...arr.slice().sort(), extent]
boundaries(arr, extent) == <<0>> \o SortAsc(arr) \o <<extent>>

\* the k-th draw of stream rs, as an integer in 0..range-1
Draw(rs, k, range) == (rs.a + k * rs.s) % range

\* p5 random(min, max): min + r * (max - min) with r in [0, 1); the operands
\* are swapped when min > max
random(lo, hi, rs, k) ==
  LET mn == IF lo <= hi THEN lo ELSE hi
      mx == IF lo <= hi THEN hi ELSE lo
  IN IF mx = mn THEN mn ELSE mn + Draw(rs, k, mx - mn)

(* ----- makeRandomLines (sketch.js 178-188) ----- *)

\* the while condition, line 181
mrlCond(st, count) == Len(st.picks) < count /\ st.tries < triesLimit

\* variant: the candidate is compared with the latest pick only
farEnough_lastOnly(picks, x, minGap) ==
  Len(picks) = 0 \/ Abs(picks[Len(picks)] - x) >= minGap

\* picks.every(p => Math.abs(p - x) >= minGap), line 184
farEnough(picks, x, minGap) == \A k \in 1..Len(picks) : Abs(picks[k] - x) >= minGap

\* variant: the body forgets tries++
mrlBody_noTick(st, span, margin, minGap, rs, k0) ==
  LET x == random(margin + LINE_W, span - margin - LINE_W, rs, k0 + st.tries)
  IN [picks |-> IF farEnough(st.picks, x, minGap) THEN Append(st.picks, x) ELSE st.picks,
      tries |-> st.tries]

\* one iteration of the while body, lines 182-184
mrlBody(st, span, margin, minGap, rs, k0) ==
  LET x == random(margin + LINE_W, span - margin - LINE_W, rs, k0 + st.tries)
  IN [picks |-> IF farEnough(st.picks, x, minGap) THEN Append(st.picks, x) ELSE st.picks,
      tries |-> st.tries + 1]

\* The while loop, lines 181-185.  while[<<st, n>>] is the loop state after at
\* most n further iterations from st, stopping as soon as the condition is
\* false; n is halved instead of counted down to keep the evaluation shallow.
\* Every iteration increments tries, so triesLimit iterations from tries = 0
\* run the loop to its end.  k0 is the number of draws made from the stream
\* before the call; the result holds the picks in pick order and the tries.
mrlRun(count, span, margin, minGap, rs, k0) ==
  LET while[a \in [picks : Seq(Int), tries : Nat] \X Nat] ==
        IF a[2] = 0 \/ ~mrlCond(a[1], count) THEN a[1]
        ELSE IF a[2] = 1 THEN mrlBody(a[1], span, margin, minGap, rs, k0)
        ELSE while[<<while[<<a[1], a[2] \div 2>>], a[2] - (a[2] \div 2)>>]
  IN while[<<[picks |-> <<>>, tries |-> 0], triesLimit>>]

makeRandomLines(count, span, margin, minGap, rs, k0) ==
  SortAsc(mrlRun(count, span, margin, minGap, rs, k0).picks)

(* ----- shuffleInPlace (sketch.js 190-196) ----- *)

\* arr is 1-based here: JavaScript's arr[i] is arr[i + 1]
Swap(arr, i, j) == [arr EXCEPT ![i + 1] = arr[j + 1], ![j + 1] = arr[i + 1]]

\* the for loop from index i down to 1; k is the number of draws made from
\* the stream so far
RECURSIVE shuffleFrom(_, _, _, _)
shuffleFrom(arr, i, rs, k) ==
  IF i > 0
  THEN LET j == Draw(rs, k, i + 1)      \* floor(random(i + 1))
       IN shuffleFrom(Swap(arr, i, j), i - 1, rs, k + 1)
  ELSE arr

shuffleInPlace(arr, rs, k0) == shuffleFrom(arr, Len(arr) - 1, rs, k0)

(* ----- lerpArray, easeInOutCubic (sketch.js 198-202, 228-230) ----- *)

\* out has b.length entries; a[i] is undefined beyond a.length and lerp of
\* undefined is NaN
lerpArray(a, b, t) ==
  [i \in 1..Len(b) |-> IF i <= Len(a) THEN lerp(R(a[i]), R(b[i]), t) ELSE NaN]

Cube(q) == RatMul(q, RatMul(q, q))

easeInOutCubic(t) ==
  IF RatLt(t, <<1, 2>>)
  THEN RatMul(R(4), Cube(t))
  ELSE RatSub(R(1), RatDiv(Cube(RatAdd(RatMul(R(-2), t), R(2))), R(2)))

(* ====================== Grid bookkeeping (sketch.js 158-174) ============= *)

\* the inner for loop over i, pushing one cell per column of row j
RECURSIVE cellsRow(_, _, _, _, _)
cellsRow(out, xs, ys, j, i) ==
  IF i < Len(xs) - 1
  THEN cellsRow(Append(out, [x |-> xs[i + 1], y |-> ys[j + 1],
                             w |-> xs[i + 2] - xs[i + 1], h |-> ys[j + 2] - ys[j + 1],
                             i |-> i, j |-> j]),
                xs, ys, j, i + 1)
  ELSE out

\* the outer for loop over j
RECURSIVE cellsRows(_, _, _, _)
cellsRows(out, xs, ys, j) ==
  IF j < Len(ys) - 1
  THEN cellsRows(cellsRow(out, xs, ys, j, 0), xs, ys, j + 1)
  ELSE out

computeCellsFor(vArr, hArr) ==
  cellsRows(<<>>, boundaries(vArr, W), boundaries(hArr, H), 0)

(* ====================== Color maps (sketch.js 204-226) =================== *)

\* A Map is a function from its keys; Map.set adds or overwrites one entry
EmptyMap == [k \in {} |-> "none"]
\* variant: an entry already present is kept
MapSet_keepFirst(m, key, val) ==
  [k \in (DOMAIN m) \cup {key} |-> IF k \in DOMAIN m THEN m[k] ELSE val]

MapSet(m, key, val) == [k \in (DOMAIN m) \cup {key} |-> IF k = key THEN val ELSE m[k]]

\* variant: the intervals are closed on the right
xIndexFor_closedRight(x, xs) ==
  LET hits == {i \in 0..(Len(xs) - 2) : RatLt(R(xs[i + 1]), x) /\ RatGe(R(xs[i + 2]), x)}
  IN IF hits # {} THEN CHOOSE i \in hits : \A k \in hits : i <= k ELSE Len(xs) - 2

\* the first i with x >= xs[i] && x < xs[i+1], else xs.length - 2
xIndexFor(x, xs) ==
  LET hits == {i \in 0..(Len(xs) - 2) : RatGe(x, R(xs[i + 1])) /\ RatLt(x, R(xs[i + 2]))}
  IN IF hits # {} THEN CHOOSE i \in hits : \A k \in hits : i <= k ELSE Len(xs) - 2

yIndexFor(y, ys) ==
  LET hits == {j \in 0..(Len(ys) - 2) : RatGe(y, R(ys[j + 1])) /\ RatLt(y, R(ys[j + 2]))}
  IN IF hits # {} THEN CHOOSE j \in hits : \A k \in hits : j <= k ELSE Len(ys) - 2

\* the cell index an anchor resolves to, lines 209-213
targetIndex(t, xs, ys) ==
  LET x == RatMul(constrain(t.pcx, R(0), R(1)), R(W))
      y == RatMul(constrain(t.pcy, R(0), R(1)), R(H))
      i == xIndexFor(x, xs)
      j == yIndexFor(y, ys)
  IN j * (Len(xs) - 1) + i

\* for (const t of targets) m.set(idx, t.col), from the n-th target on
RECURSIVE targetsLoop(_, _, _, _, _)
targetsLoop(m, targets, n, xs, ys) ==
  IF n <= Len(targets)
  THEN targetsLoop(MapSet(m, targetIndex(targets[n], xs, ys), targets[n].col),
                   targets, n + 1, xs, ys)
  ELSE m

colorMapFromTargets(targets, vArr, hArr) ==
  targetsLoop(EmptyMap, targets, 1, boundaries(vArr, W), boundaries(hArr, H))

(* ========================= Rendering (sketch.js 130-150) ================= *)

\* the stroke positions of one frame: x of each vertical line, y of each
\* horizontal line, in drawing order
Rats(arr) == [k \in 1..Len(arr) |-> R(arr[k])]
drawGrid(vArr, hArr) ==
  [v |-> <<R(0)>> \o vArr \o <<R(W)>>,
   h |-> <<R(0)>> \o hArr \o <<R(H)>>]

\* the rectangles filled by one call: one per grid index that has a color
drawColorsFromMap(map, vArr, hArr) ==
  LET xs == boundaries(vArr, W)
      ys == boundaries(hArr, H)
  IN {[idx |-> j * (Len(xs) - 1) + i, col |-> map[j * (Len(xs) - 1) + i],
       x |-> xs[i + 1], y |-> ys[j + 1],
       w |-> xs[i + 2] - xs[i + 1], h |-> ys[j + 2] - ys[j + 1]] :
        <<i, j>> \in {ij \in (0..(Len(xs) - 2)) \X (0..(Len(ys) - 2)) :
                        (ij[2] * (Len(xs) - 1) + ij[1]) \in DOMAIN map}}

(* ============================ setup (sketch.js 35-61) ==================== *)

setupV == <<90, 320, 360, 560>>
setupH == <<90, 250, 290, 380, 540>>
setupTargets ==
  << [pcx |-> Rat(24, 100), pcy |-> Rat(63, 100), col |-> "blue"],
     [pcx |-> Rat(83, 100), pcy |-> Rat(22, 100), col |-> "blue"],
     [pcx |-> Rat(6, 100),  pcy |-> Rat(5, 100),  col |-> "red"],
     [pcx |-> Rat(51, 100), pcy |-> Rat(78, 100), col |-> "red"],
     [pcx |-> Rat(38, 100), pcy |-> Rat(18, 100), col |-> "yellow"],
     [pcx |-> Rat(90, 100), pcy |-> Rat(92, 100), col |-> "yellow"] >>

\* the canvas before the first frame
blankFrame == [fills |-> {}, v |-> <<>>, h |-> <<>>]

noProbe == [op |-> "none"]

\* the state when setup() returns; no event is delivered before that
afterSetup ==
  /\ originalV = setupV
  /\ originalH = setupH
  /\ vLines = setupV
  /\ hLines = setupH
  /\ cells = computeCellsFor(setupV, setupH)
  /\ originalColorTargets = setupTargets
  /\ originalColorsMap = colorMapFromTargets(setupTargets, setupV, setupH)
  /\ randomColorsMap = EmptyMap
  /\ mode = "original"
  /\ tStart = 0
  /\ vStart = <<>>
  /\ hStart = <<>>
  /\ now = 0
  /\ frame = blankFrame

Init == afterSetup /\ probe = noProbe

(* ======================== Interaction (sketch.js 101-126) ================ *)

\* The two calls mousePressed makes to makeRandomLines, evaluated once per
\* stream: the vertical call comes first and the horizontal call continues
\* the stream where the vertical call stopped.
pressV ==
  {[rs |-> rs, lines |-> makeRandomLines(Len(setupV), W, MARGIN, MinGap, rs, 0),
    tries |-> mrlRun(Len(setupV), W, MARGIN, MinGap, rs, 0).tries] : rs \in Streams}
pressH ==
  {[rs |-> e.rs, lines |-> makeRandomLines(Len(setupH), H, MARGIN, MinGap, e.rs, e.tries),
    tries |-> mrlRun(Len(setupH), H, MARGIN, MinGap, e.rs, e.tries).tries] : e \in pressV}

\* makeRandomLines(count, W, MARGIN, 60) on a fresh stream, and the draws it made
randomV(count, rs) ==
  IF count = Len(setupV) /\ rs \in Streams
  THEN CHOOSE e \in pressV : e.rs = rs
  ELSE [rs |-> rs, lines |-> makeRandomLines(count, W, MARGIN, MinGap, rs, 0),
        tries |-> mrlRun(count, W, MARGIN, MinGap, rs, 0).tries]

\* makeRandomLines(count, H, MARGIN, 60) after k0 draws, and the draws it made
randomH(count, rs, k0) ==
  IF count = Len(setupH) /\ rs \in Streams /\ k0 = (CHOOSE e \in pressV : e.rs = rs).tries
  THEN CHOOSE e \in pressH : e.rs = rs
  ELSE [rs |-> rs, lines |-> makeRandomLines(count, H, MARGIN, MinGap, rs, k0),
        tries |-> mrlRun(count, H, MARGIN, MinGap, rs, k0).tries]

\* for (i = 0; i < palette.length && i < indices.length; i++)
\*   randomColorsMap.set(indices[i], palette[i % palette.length])
RECURSIVE paletteLoop(_, _, _, _)
paletteLoop(m, i, palette, indices) ==
  IF i < Len(palette) /\ i < Len(indices)
  THEN paletteLoop(MapSet(m, indices[i + 1], palette[(i % Len(palette)) + 1]),
                   i + 1, palette, indices)
  ELSE m

\* variant: the assignment loop without the clear()
rebuildRandomColors_noClear(old, palette, indices) == paletteLoop(old, 0, palette, indices)

\* randomColorsMap.clear() followed by the assignment loop, lines 112-115
rebuildRandomColors(old, palette, indices) == paletteLoop(EmptyMap, 0, palette, indices)

\* variant: the press forgets recomputeCells()
mousePressedWith_staleCells(rs) ==
  LET rv == randomV(Len(originalV), rs)
      rh == randomH(Len(originalH), rs, rv.tries)
      cells2 == computeCellsFor(rv.lines, rh.lines)
      palette == [k \in 1..Len(originalColorTargets) |-> originalColorTargets[k].col]
      indices == shuffleInPlace([k \in 1..Len(cells2) |-> k - 1], rs, rv.tries + rh.tries)
  IN /\ vLines' = rv.lines
     /\ hLines' = rh.lines
     /\ cells' = cells
     /\ randomColorsMap' = rebuildRandomColors(randomColorsMap, palette, indices)
     /\ mode' = "randomized"
     /\ UNCHANGED <<originalV, originalH, originalColorsMap, originalColorTargets,
                    tStart, vStart, hStart, now, frame, probe>>

mousePressedWith(rs) ==
  LET rv == randomV(Len(originalV), rs)
      rh == randomH(Len(originalH), rs, rv.tries)
      cells2 == computeCellsFor(rv.lines, rh.lines)
      palette == [k \in 1..Len(originalColorTargets) |-> originalColorTargets[k].col]
      indices == shuffleInPlace([k \in 1..Len(cells2) |-> k - 1], rs, rv.tries + rh.tries)
  IN /\ vLines' = rv.lines
     /\ hLines' = rh.lines
     /\ cells' = cells2
     /\ randomColorsMap' = rebuildRandomColors(randomColorsMap, palette, indices)
     /\ mode' = "randomized"
     /\ UNCHANGED <<originalV, originalH, originalColorsMap, originalColorTargets,
                    tStart, vStart, hStart, now, frame, probe>>

mousePressed == \E rs \in Streams : mousePressedWith(rs)

\* variant: the release also takes the current cuts as the new target
mouseReleased_retarget ==
  /\ now + TRANSITION_MS <= MaxNow
  /\ vStart' = vLines
  /\ hStart' = hLines
  /\ tStart' = now
  /\ mode' = "transition"
  /\ originalV' = vLines
  /\ originalH' = hLines
  /\ UNCHANGED <<vLines, hLines, cells, originalColorsMap,
                 originalColorTargets, randomColorsMap, now, frame, probe>>

\* the clock bound leaves every started transition the time to complete
mouseReleased ==
  /\ now + TRANSITION_MS <= MaxNow
  /\ vStart' = vLines
  /\ hStart' = hLines
  /\ tStart' = now
  /\ mode' = "transition"
  /\ UNCHANGED <<vLines, hLines, cells, originalV, originalH, originalColorsMap,
                 originalColorTargets, randomColorsMap, now, frame, probe>>

(* ============================ draw (sketch.js 63-97) ===================== *)

\* progress of the transition at time ms, line 68
progress(ms) == constrain(Rat(ms - tStart, TRANSITION_MS), R(0), R(1))

\* variant: the transition frame paints the original colors under the grid
transitionFrame_withColors(vCurr, hCurr) ==
  LET grid == drawGrid(vCurr, hCurr)
  IN [fills |-> drawColorsFromMap(originalColorsMap, originalV, originalH),
      v |-> grid.v, h |-> grid.h]

\* what a transition frame puts on the canvas, lines 75-76: the grid only
transitionFrame(vCurr, hCurr) ==
  LET grid == drawGrid(vCurr, hCurr)
  IN [fills |-> {}, v |-> grid.v, h |-> grid.h]

\* variant: u > 1, which the clamped progress never reaches
finished_strict(u) == RatLt(R(1), u)

\* if (u >= 1), line 79
finished(u) == RatGe(u, R(1))

\* variant: the commit keeps the start snapshot instead of the originals
commitTransition_fromStart ==
  /\ vLines' = vStart
  /\ hLines' = hStart
  /\ cells' = computeCellsFor(vLines', hLines')
  /\ mode' = "original"

\* variant: the commit switches the mode and leaves the cuts alone
commitTransition_keepLines ==
  /\ mode' = "original"
  /\ UNCHANGED <<vLines, hLines, cells>>

\* the end of the transition, lines 80-83
commitTransition ==
  /\ vLines' = originalV
  /\ hLines' = originalH
  /\ cells' = computeCellsFor(vLines', hLines')
  /\ mode' = "original"

\* the branch mode === "transition", lines 66-86
drawTransition(ms) ==
  \E u \in {progress(ms)} : \E t \in {easeInOutCubic(u)} :
    LET vCurr == lerpArray(vStart, originalV, t)
        hCurr == lerpArray(hStart, originalH, t)
    IN /\ frame' = transitionFrame(vCurr, hCurr)
       /\ IF finished(u)
          THEN commitTransition
          ELSE UNCHANGED <<vLines, hLines, cells, mode>>

\* variant: a normal frame puts the original cuts back
drawNormal_recommit ==
  LET map == IF mode = "randomized" THEN randomColorsMap ELSE originalColorsMap
      grid == drawGrid(Rats(vLines), Rats(hLines))
  IN /\ frame' = [fills |-> drawColorsFromMap(map, vLines, hLines),
                  v |-> grid.v, h |-> grid.h]
     /\ vLines' = originalV
     /\ hLines' = originalH
     /\ cells' = computeCellsFor(originalV, originalH)
     /\ UNCHANGED mode

\* normal rendering, lines 88-96
drawNormal ==
  LET map == IF mode = "randomized" THEN randomColorsMap ELSE originalColorsMap
      grid == drawGrid(Rats(vLines), Rats(hLines))
  IN /\ frame' = [fills |-> drawColorsFromMap(map, vLines, hLines),
                  v |-> grid.v, h |-> grid.h]
     /\ UNCHANGED <<vLines, hLines, cells, mode>>

\* one frame: the host advances the clock by d and calls draw()
draw(d) ==
  /\ now + d <= MaxNow
  /\ now' = now + d
  /\ IF mode = "transition" THEN drawTransition(now + d) ELSE drawNormal
  /\ UNCHANGED <<originalV, originalH, originalColorsMap, originalColorTargets,
                 randomColorsMap, tStart, vStart, hStart, probe>>

Tick == \E d \in TickDeltas : draw(d)

Next == mousePressed \/ mouseReleased \/ Tick

Spec == Init /\ [][Next]_vars

(* ----- the same sketch on a shorter clock, with the frame loop fair ----- *)

LiveSeeds == 1        \* random streams 0..LiveSeeds
LiveFrames == 5       \* the clock runs to LiveFrames * FrameMs

LiveMaxNow == LiveFrames * FrameMs
LiveStreams == {[a |-> 250 * k, s |-> 59 * k] : k \in 0..LiveSeeds}

mousePressedLive == \E rs \in LiveStreams : mousePressedWith(rs)

mouseReleasedLive == now + TRANSITION_MS <= LiveMaxNow /\ mouseReleased

TickLive == \E d \in TickDeltas : now + d <= LiveMaxNow /\ draw(d)

NextLive == mousePressedLive \/ mouseReleasedLive \/ TickLive

\* frames keep coming: the host's draw loop never stops
LiveSpec == Init /\ [][NextLive]_vars /\ WF_vars(TickLive)

TypeOK ==
  /\ mode \in {"original", "randomized", "transition"}
  /\ now \in 0..MaxNow
  /\ tStart \in 0..MaxNow
  /\ probe = noProbe

(* ================= makeRandomLines as a function of its inputs =========== *)

MaxCount == 3         \* counts 0..MaxCount

\* arguments with a non-empty sampling interval [margin + LINE_W, span - margin - LINE_W]
MrlInputs ==
  {[op |-> "makeRandomLines", count |-> c, span |-> sp, margin |-> m, minGap |-> g,
    rs |-> rs, done |-> FALSE, out |-> <<>>, tries |-> 0] :
      c \in 0..MaxCount, sp \in {60, 200, W}, m \in {0, MARGIN},
      g \in {1, MinGap \div 2, MinGap}, rs \in Streams}

InitMrl == afterSetup /\ probe \in {i \in MrlInputs : i.margin + LINE_W <= i.span - i.margin - LINE_W}

callMakeRandomLines ==
  /\ probe.op = "makeRandomLines"
  /\ ~probe.done
  /\ probe' = [probe EXCEPT !.done = TRUE,
                            !.out = makeRandomLines(probe.count, probe.span, probe.margin,
                                                    probe.minGap, probe.rs, 0),
                            !.tries = mrlRun(probe.count, probe.span, probe.margin,
                                             probe.minGap, probe.rs, 0).tries]
  /\ UNCHANGED <<vLines, hLines, cells, originalV, originalH, originalColorsMap,
                 originalColorTargets, randomColorsMap, mode, tStart, vStart, hStart,
                 now, frame>>

NextMrl == callMakeRandomLines

MrlSpec == InitMrl /\ [][NextMrl]_vars

\* the same call on any arguments: narrow spans are added, for which the
\* sampling interval is a single point or has its ends the wrong way round
MrlAnyInputs ==
  MrlInputs \cup
  {[op |-> "makeRandomLines", count |-> c, span |-> sp, margin |-> MARGIN, minGap |-> g,
    rs |-> rs, done |-> FALSE, out |-> <<>>, tries |-> 0] :
      c \in 0..MaxCount, sp \in {2 * MARGIN, 2 * (MARGIN + LINE_W)},
      g \in {1, MinGap}, rs \in Streams}

InitMrlAny == afterSetup /\ probe \in MrlAnyInputs

MrlAnySpec == InitMrlAny /\ [][NextMrl]_vars

(* ========== computeCellsFor and colorMapFromTargets as functions ========= *)

MaxCuts == 2          \* cut lists of 0..MaxCuts entries
MaxAnchors == 2       \* anchor lists of 0..MaxAnchors entries

SeqsUpTo(S, n) == UNION {[1..k -> S] : k \in 0..n}

\* cut lists in any order, repeated values included
VCutLists == SeqsUpTo({W \div 4, W \div 2}, MaxCuts)
HCutLists == SeqsUpTo({H \div 4, H \div 2}, MaxCuts)

\* anchors on a cut value, left of and above the canvas, and right of and on
\* its lower edge
AnchorPoints ==
  { [pcx |-> Rat(1, 4), pcy |-> Rat(1, 2)],
    [pcx |-> Rat(-1, 2), pcy |-> Rat(1, 10)],
    [pcx |-> Rat(3, 2), pcy |-> R(1)] }
Anchors == {[pcx |-> p.pcx, pcy |-> p.pcy, col |-> c] : p \in AnchorPoints, c \in {"red", "blue"}}

\* vIn, hIn: the lists as passed; vArr, hArr: the caller's lists
CellsInputs ==
  {[op |-> "computeCellsFor", vIn |-> v, hIn |-> h, vArr |-> v, hArr |-> h,
    done |-> FALSE, out |-> <<>>] : v \in VCutLists, h \in HCutLists}

MapInputs ==
  {[op |-> "colorMapFromTargets", targetsIn |-> ts, vIn |-> v, hIn |-> h,
    targets |-> ts, vArr |-> v, hArr |-> h, outs |-> <<>>] :
      ts \in SeqsUpTo(Anchors, MaxAnchors), v \in VCutLists, h \in HCutLists}

InitGrid == afterSetup /\ probe \in CellsInputs \cup MapInputs

callComputeCellsFor ==
  /\ probe.op = "computeCellsFor"
  /\ ~probe.done
  /\ probe' = [probe EXCEPT !.done = TRUE,
                            !.out = computeCellsFor(probe.vArr, probe.hArr),
                            !.vArr = afterSortedCopy(probe.vArr),
                            !.hArr = afterSortedCopy(probe.hArr)]
  /\ UNCHANGED <<vLines, hLines, cells, originalV, originalH, originalColorsMap,
                 originalColorTargets, randomColorsMap, mode, tStart, vStart, hStart,
                 now, frame>>

\* the function is called twice on the same caller's arrays
callColorMapFromTargets ==
  /\ probe.op = "colorMapFromTargets"
  /\ Len(probe.outs) < 2
  /\ probe' = [probe EXCEPT !.outs = Append(probe.outs,
                                colorMapFromTargets(probe.targets, probe.vArr, probe.hArr)),
                            !.vArr = afterSortedCopy(probe.vArr),
                            !.hArr = afterSortedCopy(probe.hArr)]
  /\ UNCHANGED <<vLines, hLines, cells, originalV, originalH, originalColorsMap,
                 originalColorTargets, randomColorsMap, mode, tStart, vStart, hStart,
                 now, frame>>

NextGrid == callComputeCellsFor \/ callColorMapFromTargets

GridSpec == InitGrid /\ [][NextGrid]_vars

(* ============================== Properties =============================== *)

\* Only draw() reads the clock forward, and the handlers leave it alone, so
\* the kind of a step shows in the state: a frame advances `now`, a press
\* keeps it and ends in mode randomized, a release keeps it and ends in
\* mode transition.
TickStep == now' # now
PressStep == now' = now /\ mode' = "randomized"
ReleaseStep == now' = now /\ mode' = "transition"

Min(a, b) == IF a <= b THEN a ELSE b
NumCells(vArr, hArr) == (Len(vArr) + 1) * (Len(hArr) + 1)

\* what a press with stream rs leaves in vLines, hLines and randomColorsMap
pressOutcome(rs) ==
  LET rv == randomV(Len(originalV), rs)
      rh == randomH(Len(originalH), rs, rv.tries)
      n == NumCells(rv.lines, rh.lines)
      palette == [k \in 1..Len(originalColorTargets) |-> originalColorTargets[k].col]
      indices == shuffleInPlace([k \in 1..n |-> k - 1], rs, rv.tries + rh.tries)
  IN [v |-> rv.lines, h |-> rh.lines, indices |-> indices, palette |-> palette,
      map |-> rebuildRandomColors(EmptyMap, palette, indices)]

\* C1: in every frame colored cells are filled if and only if the mode at the
\* start of the frame is original or randomized; every frame processed in
\* mode transition, the committing one included, draws grid lines and fills
\* no cell.
C1_ModeInvariant ==
  [][TickStep =>
       /\ (frame'.fills # {}) <=> (mode \in {"original", "randomized"})
       /\ mode = "transition" =>
            /\ frame'.fills = {}
            /\ Len(frame'.v) >= 2
            /\ Len(frame'.h) >= 2]_vars

\* the committing frame of a transition: the mode is original again and the
\* canvas shows lines only
C1_Witness ==
  /\ mode = "original"
  /\ now > 0
  /\ hStart # originalH
  /\ frame.fills = {}
  /\ Len(frame.v) >= 2

\* C2: a frame processed in mode transition with progress u >= 1 leaves
\* vLines = originalV and hLines = originalH, element for element, and
\* mode = original, in every press/release/tick cycle.
C2_ExactCommit ==
  [][(TickStep /\ mode = "transition" /\ RatGe(progress(now'), R(1))) =>
       /\ vLines' = originalV
       /\ hLines' = originalH
       /\ mode' = "original"]_vars

\* the commit of a second transition that started from random cuts
C2_Witness ==
  /\ mode = "original"
  /\ tStart >= TRANSITION_MS
  /\ now >= tStart + TRANSITION_MS
  /\ frame.fills = {}
  /\ vStart # originalV
  /\ vLines = originalV
  /\ hLines = originalH

\* C3: after a release at tStart, with frames kept coming and no further
\* press or release, the mode becomes original; a frame in mode transition
\* commits exactly when now - tStart >= TRANSITION_MS, and a frame with
\* now - tStart < TRANSITION_MS leaves the mode alone.
C3_TransitionCompletes ==
  /\ \A t0 \in {k * FrameMs : k \in 0..(LiveFrames - 4)} :
       (mode = "transition" /\ tStart = t0)
          ~> (mode = "original" \/ mode = "randomized" \/ tStart # t0)
  /\ [][(TickStep /\ mode = "transition") =>
          /\ (mode' = "original") <=> (now' - tStart >= TRANSITION_MS)
          /\ (now' - tStart < TRANSITION_MS) => (mode' = mode)]_vars

\* a transition committed by the frame at exactly tStart + TRANSITION_MS
C3_Witness ==
  /\ mode = "original"
  /\ vStart # <<>>
  /\ now = tStart + TRANSITION_MS
  /\ frame.fills = {}
  /\ frame.v = drawGrid(Rats(originalV), Rats(originalH)).v

\* C4: a press is accepted in every mode; after it mode = randomized,
\* vLines and hLines are newly generated lists, cells is recomputed from
\* them and randomColorsMap is rebuilt; once a press has ended a transition,
\* frames neither interpolate nor commit until a later release.
\* (mousePressed has no guard: every step that keeps the clock and ends in
\* mode randomized is a press, whatever the mode before it.)
C4_PressSupersedes ==
  /\ [][PressStep =>
          /\ \E rs \in Streams :
               LET o == pressOutcome(rs)
               IN /\ vLines' = o.v
                  /\ hLines' = o.h
                  /\ randomColorsMap' = o.map
          /\ cells' = computeCellsFor(vLines', hLines')]_vars
  /\ [][(TickStep /\ mode = "randomized") =>
          /\ mode' = "randomized"
          /\ vLines' = vLines
          /\ hLines' = hLines
          /\ frame'.v = drawGrid(Rats(vLines), Rats(hLines)).v
          /\ frame'.h = drawGrid(Rats(vLines), Rats(hLines)).h
          /\ frame'.fills = drawColorsFromMap(randomColorsMap, vLines, hLines)]_vars

\* a frame drawn in mode randomized at the deadline of a transition that a
\* press interrupted: had the transition still been running, this frame
\* would have committed it
C4_Witness ==
  /\ mode = "randomized"
  /\ vStart # <<>>
  /\ now = tStart + TRANSITION_MS
  /\ frame.fills # {}
  /\ frame.v = drawGrid(Rats(vLines), Rats(hLines)).v

\* C5: mode transition is entered only by a release in mode randomized (or
\* re-entered by a release in mode transition), never from mode original;
\* mode original is entered only by a committing frame in mode transition.
C5_ThreePhaseCycle ==
  [][/\ (mode' = "transition" /\ mode # "transition") => mode = "randomized"
     /\ (mode' = "original" /\ mode # "original") =>
          (mode = "transition" /\ TickStep /\ now' - tStart >= TRANSITION_MS)]_vars

\* C6: a release in mode transition restarts the transition from the
\* positions the transition has reached (those a frame at this instant
\* draws), with the current time as tStart.
C6_RestartFromInterpolated ==
  [][(ReleaseStep /\ mode = "transition") =>
       LET t == easeInOutCubic(progress(now))
       IN /\ Len(vStart') = Len(vStart)
          /\ Len(hStart') = Len(hStart)
          /\ \A i \in 1..Min(Len(vStart), Len(originalV)) :
               R(vStart'[i]) = lerp(R(vStart[i]), R(originalV[i]), t)
          /\ \A i \in 1..Min(Len(hStart), Len(originalH)) :
               R(hStart'[i]) = lerp(R(hStart[i]), R(originalH[i]), t)
          /\ tStart' = now]_vars

\* C7: in every state vLines and hLines have as many entries as originalV
\* and originalH, and so have vStart and hStart while mode is transition.
C7_CutCount ==
  /\ Len(vLines) = Len(originalV)
  /\ Len(hLines) = Len(originalH)
  /\ mode = "transition" => (Len(vStart) = Len(originalV) /\ Len(hStart) = Len(originalH))

\* C8: in mode original vLines = originalV and hLines = originalH, the lists
\* originalColorsMap was built from; in mode randomized randomColorsMap is
\* the mapping the latest press built from the current vLines and hLines,
\* and its keys are cell indices of the current grid.
C8_MapMatchesCuts ==
  /\ mode = "original" =>
       /\ vLines = originalV
       /\ hLines = originalH
       /\ originalColorsMap = colorMapFromTargets(originalColorTargets, vLines, hLines)
  /\ mode = "randomized" =>
       /\ \E rs \in Streams :
            LET o == pressOutcome(rs)
            IN /\ vLines = o.v
               /\ hLines = o.h
               /\ randomColorsMap = o.map
       /\ DOMAIN randomColorsMap \subseteq 0..(NumCells(vLines, hLines) - 1)
       /\ Len(cells) = NumCells(vLines, hLines)

\* a randomized frame drawn after a completed cycle: every key of the
\* random mapping was painted on the current grid
C8_Witness ==
  /\ mode = "randomized"
  /\ vStart # <<>>
  /\ now > tStart + TRANSITION_MS
  /\ frame.fills # {}
  /\ {f.idx : f \in frame.fills} = DOMAIN randomColorsMap
  /\ Cardinality(DOMAIN randomColorsMap) = Len(originalColorTargets)

\* C9: after every press randomColorsMap has exactly
\* min(palette.length, cells.length) entries, its keys are distinct indices
\* in [0, cells.length) of the new grid, the i-th selected key holds
\* palette[i], and no key of an earlier press remains unless the new
\* shuffle selected it.
C9_RandomMapRebuilt ==
  [][PressStep =>
       LET n == Min(Len(originalColorTargets), Len(cells'))
       IN /\ Cardinality(DOMAIN randomColorsMap') = n
          /\ DOMAIN randomColorsMap' \subseteq 0..(Len(cells') - 1)
          /\ \E rs \in Streams :
               LET o == pressOutcome(rs)
               IN /\ vLines' = o.v
                  /\ hLines' = o.h
                  /\ DOMAIN randomColorsMap' = {o.indices[i] : i \in 1..n}
                  /\ \A i \in 1..n : randomColorsMap'[o.indices[i]] = o.palette[i]]_vars

\* a press that left fewer cells than palette colors: every cell is colored
C9_Witness ==
  /\ mode = "randomized"
  /\ Len(cells) < Len(originalColorTargets)
  /\ Cardinality(DOMAIN randomColorsMap) = Len(cells)
  /\ DOMAIN randomColorsMap = 0..(Len(cells) - 1)

C11_BoundedAttempts ==
  probe.op = "makeRandomLines" /\ probe.done =>
       /\ probe.tries <= triesLimit
       /\ Len(probe.out) <= probe.count
       /\ Len(probe.out) < probe.count => probe.tries = triesLimit
       /\ probe.tries >= Len(probe.out)

\* three cuts asked for where one fits: the draws run out and one cut is returned
C11_Witness ==
  /\ probe.op = "makeRandomLines"
  /\ probe.done
  /\ probe.count = 3
  /\ probe.span = 60
  /\ probe.minGap = MinGap
  /\ Len(probe.out) = 1
  /\ probe.tries = triesLimit

\* a list of rationals with an entry that is not a number
HasNaN(arr) == \E k \in 1..Len(arr) : IsNaN(arr[k])

\* C12: a frame processed in mode transition while a start snapshot and its
\* target list differ in length draws no cut list at all: the frame before it
\* stays, and no drawn line position is undefined.
C12_MismatchFailsFast ==
  [][(TickStep /\ mode = "transition"
        /\ (Len(vStart) # Len(originalV) \/ Len(hStart) # Len(originalH))) =>
       /\ ~HasNaN(frame'.v)
       /\ ~HasNaN(frame'.h)
       /\ frame' = frame]_vars

\* the ascending arrangement of the entries of s, stated without the sort
Ascending(s) ==
  CHOOSE p \in [1..Len(s) -> {s[k] : k \in 1..Len(s)}] :
    /\ \A k \in 1..(Len(s) - 1) : p[k] <= p[k + 1]
    /\ \A x \in {s[k] : k \in 1..Len(s)} :
         Cardinality({k \in 1..Len(s) : p[k] = x}) = Cardinality({k \in 1..Len(s) : s[k] = x})

\* C13: for cut lists of m and n entries, empty ones included,
\* computeCellsFor returns (m+1)*(n+1) cells in row-major order: the cell at
\* position k has i = k mod (m+1), j = k div (m+1) and the bounds of the i-th
\* interval of [0, ascending vertical cuts, W] and the j-th interval of
\* [0, ascending horizontal cuts, H]; the lists passed in are left as they were.
C13_CellsRowMajor ==
  probe.op = "computeCellsFor" /\ probe.done =>
    LET m == Len(probe.vIn)
        n == Len(probe.hIn)
        xs == <<0>> \o Ascending(probe.vIn) \o <<W>>
        ys == <<0>> \o Ascending(probe.hIn) \o <<H>>
    IN /\ Len(probe.out) = (m + 1) * (n + 1)
       /\ \A k \in 0..(Len(probe.out) - 1) :
            LET c == probe.out[k + 1]
                i == k % (m + 1)
                j == k \div (m + 1)
            IN /\ c.i = i
               /\ c.j = j
               /\ c.x = xs[i + 1]
               /\ c.y = ys[j + 1]
               /\ c.w = xs[i + 2] - xs[i + 1]
               /\ c.h = ys[j + 2] - ys[j + 1]
       /\ probe.vArr = probe.vIn
       /\ probe.hArr = probe.hIn

\* two vertical cuts given in descending order and no horizontal cut
C13_Witness ==
  /\ probe.op = "computeCellsFor"
  /\ probe.done
  /\ probe.vIn = <<W \div 2, W \div 4>>
  /\ probe.hIn = <<>>
  /\ Len(probe.out) = 3
  /\ probe.out[1].w = W \div 4

\* the point an anchor stands for: its fractions clamped to [0, 1] and scaled
AnchorX(t) == RatMul(constrain(t.pcx, R(0), R(1)), R(W))
AnchorY(t) == RatMul(constrain(t.pcy, R(0), R(1)), R(H))

\* the intervals [bs[i], bs[i+1]) of the boundary array bs that contain q
Containing(q, bs) ==
  {i \in 0..(Len(bs) - 2) : RatGe(q, R(bs[i + 1])) /\ RatLt(q, R(bs[i + 2]))}

\* the interval of q: the one that contains it, the last one for the far edge
IntervalOf(q, bs) ==
  IF q = R(bs[Len(bs)]) THEN Len(bs) - 2 ELSE CHOOSE i \in Containing(q, bs) : TRUE

\* C14: colorMapFromTargets keys each anchor by the cell that contains its
\* point (x, y): key = j * columns + i with i the one column with
\* xs[i] <= x < xs[i+1], or the last column when x = W, and j the one row with
\* ys[j] <= y < ys[j+1], or the last row when y = H; every key lies in
\* 0..rows*columns-1.  On the original grid the anchor (0.24, 0.63) has key 16.
C14_AnchorCell ==
  /\ targetIndex(setupTargets[1], boundaries(setupV, W), boundaries(setupH, H)) = 16
  /\ originalColorsMap[16] = setupTargets[1].col
  /\ probe.op = "colorMapFromTargets" /\ Len(probe.outs) >= 1 =>
       LET xs == <<0>> \o Ascending(probe.vIn) \o <<W>>
           ys == <<0>> \o Ascending(probe.hIn) \o <<H>>
           columns == Len(probe.vIn) + 1
           rows == Len(probe.hIn) + 1
           ts == probe.targetsIn
           key(t) == IntervalOf(AnchorY(t), ys) * columns + IntervalOf(AnchorX(t), xs)
       IN /\ \A n \in 1..Len(ts) :
               /\ AnchorX(ts[n]) # R(W) => Cardinality(Containing(AnchorX(ts[n]), xs)) = 1
               /\ AnchorY(ts[n]) # R(H) => Cardinality(Containing(AnchorY(ts[n]), ys)) = 1
          /\ DOMAIN probe.outs[1] = {key(ts[n]) : n \in 1..Len(ts)}
          /\ DOMAIN probe.outs[1] \subseteq 0..(rows * columns - 1)

\* an anchor exactly on a vertical and a horizontal cut, and one on the far
\* corner of the canvas
C14_Witness ==
  /\ probe.op = "colorMapFromTargets"
  /\ Len(probe.outs) >= 1
  /\ probe.vIn = <<W \div 2, W \div 4>>
  /\ probe.hIn = <<H \div 2>>
  /\ Len(probe.targetsIn) = 2
  /\ probe.targetsIn[1].pcx = Rat(1, 4)
  /\ probe.targetsIn[2].pcx = Rat(3, 2)
  /\ DOMAIN probe.outs[1] = {4, 5}

C18_LastAnchorWins ==
  probe.op = "colorMapFromTargets" /\ Len(probe.outs) >= 1 =>
    LET xs == boundaries(probe.vIn, W)
        ys == boundaries(probe.hIn, H)
        ts == probe.targetsIn
        idx(n) == targetIndex(ts[n], xs, ys)
        last(k) == CHOOSE n \in 1..Len(ts) :
                     idx(n) = k /\ \A n2 \in 1..Len(ts) : idx(n2) = k => n2 <= n
    IN /\ Cardinality(DOMAIN probe.outs[1]) = Cardinality({idx(n) : n \in 1..Len(ts)})
       /\ \A k \in DOMAIN probe.outs[1] : probe.outs[1][k] = ts[last(k)].col

\* two anchors of different colors in one cell: one entry, the second color
C18_Witness ==
  /\ probe.op = "colorMapFromTargets"
  /\ Len(probe.outs) >= 1
  /\ Len(probe.targetsIn) = 2
  /\ probe.targetsIn[1].col = "red"
  /\ probe.targetsIn[2].col = "blue"
  /\ probe.targetsIn[1].pcx = probe.targetsIn[2].pcx
  /\ Cardinality(DOMAIN probe.outs[1]) = 1
  /\ \A k \in DOMAIN probe.outs[1] : probe.outs[1][k] = "blue"

\* C15: easeInOutCubic(0) = 0 and easeInOutCubic(1) = 1, its values stay in
\* [0, 1], and a transition frame at progress u = 0 draws exactly the start
\* cuts and a frame at u = 1 draws exactly the target cuts, element for
\* element.
C15_InterpolationEndpoints ==
  [][(TickStep /\ mode = "transition") =>
       LET u == progress(now')
           t == easeInOutCubic(u)
       IN /\ easeInOutCubic(R(0)) = R(0)
          /\ easeInOutCubic(R(1)) = R(1)
          /\ RatGe(t, R(0)) /\ RatGe(R(1), t)
          /\ u = R(0) =>
               /\ frame'.v = drawGrid(Rats(vStart), Rats(hStart)).v
               /\ frame'.h = drawGrid(Rats(vStart), Rats(hStart)).h
          /\ u = R(1) =>
               /\ frame'.v = drawGrid(Rats(originalV), Rats(originalH)).v
               /\ frame'.h = drawGrid(Rats(originalV), Rats(originalH)).h]_vars

\* the sketch's own variables: everything but the clock and the canvas
globals == <<vLines, hLines, cells, originalV, originalH, originalColorsMap,
             originalColorTargets, randomColorsMap, mode, tStart, vStart, hStart>>

\* C17: a frame in mode transition with progress u < 1 leaves mode, vLines,
\* hLines, cells, vStart, hStart, tStart and both color mappings unchanged,
\* the interpolated lists going to the canvas only; a frame in mode original
\* or randomized changes none of the sketch's variables.
C17_TickWritesNothing ==
  [][TickStep =>
       /\ (mode = "transition" /\ RatLt(progress(now'), R(1))) =>
            UNCHANGED <<mode, vLines, hLines, cells, vStart, hStart, tStart,
                        originalColorsMap, randomColorsMap>>
       /\ mode \in {"original", "randomized"} => UNCHANGED globals]_vars

\* a frame in the middle of a transition between two full grids: the canvas
\* shows cuts that are neither the start nor vLines
C17_Witness ==
  /\ mode = "transition"
  /\ now > tStart
  /\ now < tStart + TRANSITION_MS
  /\ Len(vStart) = Len(originalV)
  /\ vStart # originalV
  /\ frame.fills = {}
  /\ Len(frame.v) = Len(vLines) + 2
  /\ frame.v # drawGrid(Rats(vLines), Rats(hLines)).v
  /\ frame.v # drawGrid(Rats(originalV), Rats(originalH)).v

StrictlyIncreasing(s) == \A k \in 1..(Len(s) - 1) : s[k] < s[k + 1]
RatsIncreasing(s) == \A k \in 1..(Len(s) - 1) : RatLt(s[k], s[k + 1])

\* C19: in every state the boundary arrays [0, sorted vLines, W] and
\* [0, sorted hLines, H] are strictly increasing, and every frame drawn in a
\* transition has its interpolated cuts strictly increasing and strictly
\* inside (0, W) and (0, H): the drawn line positions 0, cuts, W and
\* 0, cuts, H increase strictly.
C19_BoundariesNeverCollapse ==
  /\ StrictlyIncreasing(boundaries(vLines, W))
  /\ StrictlyIncreasing(boundaries(hLines, H))
  /\ RatsIncreasing(frame.v)
  /\ RatsIncreasing(frame.h)

\* C20: no press, release or frame, in any order, changes originalV,
\* originalH, originalColorTargets or originalColorsMap: they hold what
\* setup() put there, whatever vLines, hLines, vStart and hStart become.
C20_OriginalImmutable ==
  /\ originalV = setupV
  /\ originalH = setupH
  /\ originalColorTargets = setupTargets
  /\ originalColorsMap = colorMapFromTargets(setupTargets, setupV, setupH)

\* a later randomized grid, pressed at least one transition time after
\* setup and after an earlier grid was released
C20_Witness ==
  /\ mode = "randomized"
  /\ now >= TRANSITION_MS
  /\ vStart # <<>>
  /\ vStart # setupV
  /\ vLines # vStart
  /\ vLines # setupV
  /\ originalV = setupV
====
